---- MODULE Spec2Model ----
(***************************************************************************)
(* Federation member-cluster client: endpoint selection and client         *)
(* construction (NewClusterClientSet), the /healthz probe                  *)
(* (GetClusterHealthStatus) and zone/region discovery (getZoneNames).      *)
(***************************************************************************)
EXTENDS Integers, Sequences, FiniteSets, TLC

VARIABLES
    c,              \* the Cluster passed to NewClusterClientSet: its Spec.ServerAddressByClientCIDRs
    hostIP,         \* what utilnet.ChooseHostInterface() finds on this host
    secretEnv,      \* what the default kubeconfig getter finds (POD_NAMESPACE, apiserver, secret)
    healthz,        \* how the member cluster answers GET /healthz
    nodes,          \* the member cluster's nodes
    now,            \* unversioned.Now()
    pc,             \* "start", "returned" or "panic"
    op,             \* the function that ran last
    serverAddress,  \* NewClusterClientSet's local serverAddress
    kubeconfigErr,  \* what the kubeconfig getter returned, "notcalled" when not invoked
    built,          \* the handles constructed so far
    client,         \* the *ClusterClient NewClusterClientSet returned
    err,            \* the error NewClusterClientSet returned
    status,         \* the *ClusterStatus GetClusterHealthStatus returned
    listing,        \* the NodeList the last getZoneNames call got
    zones,          \* getZoneNames' results
    region,
    zerr

vars == <<c, hostIP, secretEnv, healthz, nodes, now, pc, op, serverAddress,
          kubeconfigErr, built, client, err, status, listing, zones, region, zerr>>

----------------------------------------------------------------------------
(* Bounds *)

IPBits == 1         \* width of an IP address
MaxPairs == 2       \* longest ServerAddressByClientCIDRs list
MaxCredPairs == 1   \* longest list explored together with every secret environment
MaxBody == 2        \* longest /healthz body, in runes
MaxTime == 1        \* latest clock reading
MaxNodes == 3       \* most nodes in the member cluster

----------------------------------------------------------------------------
(* Go values *)

NIL == <<>>                         \* a nil pointer; a non-nil pointer to v is <<v>>
Ptr(v) == <<v>>
Deref(p) == p[1]

NilErr == "nil"

Pow2(n) == 2 ^ n

IPs == 0 .. (Pow2(IPBits) - 1)
NoHostIP == -1
HostIPs == IPs \cup {NoHostIP}

ServerAddresses == {"", "https://a", "https://b"}

\* A ClientCIDR string "ip/bits"; a prefix longer than the address does not parse.
CIDRStrings == [ip : IPs, bits : 0 .. IPBits] \cup {[ip |-> 0, bits |-> IPBits + 1]}

ServerAddressByClientCIDR == [ClientCIDR : CIDRStrings, ServerAddress : ServerAddresses]

SeqsUpTo(S, n) == UNION {[1 .. k -> S] : k \in 0 .. n}

ClusterSpecs == SeqsUpTo(ServerAddressByClientCIDR, MaxPairs)

----------------------------------------------------------------------------
(* net.ParseCIDR, net.IP.String, net.ParseIP, net.IPNet.Contains *)

\* The high `bits` bits of ip, the rest cleared.
Mask(ip, bits) == ip - (ip % Pow2(IPBits - bits))

ParseCIDR(s) ==
    IF s.bits > IPBits
    THEN [err |-> "invalid CIDR address", cidrnet |-> [ip |-> 0, bits |-> 0]]
    ELSE [err |-> NilErr, cidrnet |-> [ip |-> Mask(s.ip, s.bits), bits |-> s.bits]]

\* The address written out digit by digit, most significant first.
RECURSIVE Digits(_, _)
Digits(ip, n) == IF n = 0 THEN <<>> ELSE Append(Digits(ip \div 2, n - 1), ip % 2)

IPString(ip) == Digits(ip, IPBits)

RECURSIVE ParseDigits(_, _)
ParseDigits(s, n) == IF n = 0 THEN 0 ELSE 2 * ParseDigits(s, n - 1) + s[n]

ParseIP(s) == ParseDigits(s, Len(s))

Contains(cidrnet, ip) == Mask(ip, cidrnet.bits) = Mask(cidrnet.ip, cidrnet.bits)

----------------------------------------------------------------------------
(* KubeconfigGetterForCluster: the default getter, run in environment e *)

SecretEnvs == [namespace : {"", "federation"},
               inCluster : BOOLEAN,
               secret    : {"absent", "nokey", "garbled", "kubeconfig"}]

GoodSecretEnv == [namespace |-> "federation", inCluster |-> TRUE, secret |-> "kubeconfig"]

KubeconfigGetterForCluster(e) ==
    IF e.namespace = "" THEN "unexpected: POD_NAMESPACE env var returned empty string"
    ELSE IF ~e.inCluster THEN "error in creating in-cluster client"
    ELSE IF e.secret = "absent" THEN "error in fetching secret"
    ELSE IF e.secret = "nokey" THEN "secret does not have data with key: kubeconfig"
    ELSE IF e.secret = "garbled" THEN "clientcmd.Load: invalid kubeconfig"
    ELSE NilErr

\* clientcmd.BuildConfigFromKubeconfigGetter: the getter's error, or the error of
\* building the client config from what it loaded.
BuildConfigFromKubeconfigGetter(getterErr, cfgOK) ==
    IF getterErr # NilErr THEN getterErr
    ELSE IF ~cfgOK THEN "invalid configuration"
    ELSE NilErr

----------------------------------------------------------------------------
(* NewClusterClientSet *)

ClusterClient == [discoveryClient : {"nil", "discoveryClient"},
                  kubeClient      : {"nil", "kubeClient"}]

EmptyClusterClient == [discoveryClient |-> "nil", kubeClient |-> "nil"]

\* The for loop over c.Spec.ServerAddressByClientCIDRs, from item i on.
RECURSIVE SelectServerAddressFrom(_, _, _)
SelectServerAddressFrom(items, i, ip) ==
    IF i > Len(items) THEN [serverAddress |-> "", err |-> NilErr]
    ELSE LET parsed == ParseCIDR(items[i].ClientCIDR)
             myaddr == ParseIP(IPString(ip))
         IN  IF parsed.err # NilErr THEN [serverAddress |-> "", err |-> parsed.err]
             ELSE IF Contains(parsed.cidrnet, myaddr)
                  THEN [serverAddress |-> items[i].ServerAddress, err |-> NilErr]
                  ELSE SelectServerAddressFrom(items, i + 1, ip)

\* The loop without its `break`: a later match overwrites an earlier one.
RECURSIVE SelectLastFrom(_, _, _, _)
SelectLastFrom(items, i, ip, addr) ==
    IF i > Len(items) THEN [serverAddress |-> addr, err |-> NilErr]
    ELSE LET parsed == ParseCIDR(items[i].ClientCIDR)
         IN  IF parsed.err # NilErr THEN [serverAddress |-> "", err |-> parsed.err]
             ELSE IF Contains(parsed.cidrnet, ParseIP(IPString(ip)))
                  THEN SelectLastFrom(items, i + 1, ip, items[i].ServerAddress)
                  ELSE SelectLastFrom(items, i + 1, ip, addr)

SelectLastServerAddress(items, ip) == SelectLastFrom(items, 1, ip, "")

\* The loop with `continue` in place of `return nil, err`: a CIDR that does not
\* parse is skipped.
RECURSIVE SelectSkippingFrom(_, _, _)
SelectSkippingFrom(items, i, ip) ==
    IF i > Len(items) THEN [serverAddress |-> "", err |-> NilErr]
    ELSE LET parsed == ParseCIDR(items[i].ClientCIDR)
         IN  IF parsed.err # NilErr THEN SelectSkippingFrom(items, i + 1, ip)
             ELSE IF Contains(parsed.cidrnet, ParseIP(IPString(ip)))
                  THEN [serverAddress |-> items[i].ServerAddress, err |-> NilErr]
                  ELSE SelectSkippingFrom(items, i + 1, ip)

SelectSkippingMalformed(items, ip) == SelectSkippingFrom(items, 1, ip)

SelectServerAddress(items, ip) == SelectServerAddressFrom(items, 1, ip)

Returned(addr, getterErr, handles, cl, e) ==
    [pc |-> "returned", serverAddress |-> addr, kubeconfigErr |-> getterErr,
     built |-> handles, client |-> cl, err |-> e]

Panicked(addr, getterErr, handles) ==
    [pc |-> "panic", serverAddress |-> addr, kubeconfigErr |-> getterErr,
     built |-> handles, client |-> NIL, err |-> NilErr]

\* What is returned when no server address was selected.
NoServerAddress(hostErr) == Returned("", "notcalled", {}, Ptr(EmptyClusterClient), hostErr)

\* The config error dropped: `return nil, nil`.
ConfigFailedSilently(addr, getterErr, cfgErr) == Returned(addr, getterErr, {}, NIL, NilErr)

\* What is returned when BuildConfigFromKubeconfigGetter fails with cfgErr.
ConfigFailed(addr, getterErr, cfgErr) == Returned(addr, getterErr, {}, NIL, cfgErr)

\* What can happen inside the client libraries once the kubeconfig is loaded: the
\* config builds and both constructors return, the config does not build, or one of
\* the ...OrDie constructors panics.
LibOutcomes == {"ok", "config error", "discovery panic", "clientset panic"}

\* The body of `if serverAddress != ""`.
BuildHandles(addr, env, lib, hostErr) ==
    LET getterErr == KubeconfigGetterForCluster(env)
        cfgErr == BuildConfigFromKubeconfigGetter(getterErr, lib # "config error")
        discoveryClient == IF lib = "discovery panic" THEN "nil" ELSE "discoveryClient"
        kubeClient == IF lib = "clientset panic" THEN "nil" ELSE "kubeClient"
    IN  IF cfgErr # NilErr THEN ConfigFailed(addr, getterErr, cfgErr)
        ELSE IF lib = "discovery panic" THEN Panicked(addr, getterErr, {})
        ELSE IF discoveryClient = "nil" THEN Returned(addr, getterErr, {}, NIL, NilErr)
        ELSE IF lib = "clientset panic" THEN Panicked(addr, getterErr, {"discoveryClient"})
        ELSE IF kubeClient = "nil"
             THEN Returned(addr, getterErr, {"discoveryClient"}, NIL, NilErr)
        ELSE Returned(addr, getterErr, {"discoveryClient", "kubeClient"},
                      Ptr([discoveryClient |-> discoveryClient, kubeClient |-> kubeClient]),
                      hostErr)

\* NewClusterClientSet up to `var clusterClientSet = ClusterClient{}`: the error it
\* returns early with, or the server address it selected.
ChooseServerAddress(cluster, ip) ==
    IF ip = NoHostIP THEN [serverAddress |-> "", err |-> "unable to select an IP"]
    ELSE SelectServerAddress(cluster, ip)

NewClusterClientSetResult(cluster, ip, env, lib) ==
    LET sel == ChooseServerAddress(cluster, ip)
        hostErr == NilErr
    IN  IF sel.err # NilErr THEN Returned("", "notcalled", {}, NIL, sel.err)
        ELSE IF sel.serverAddress # ""
             THEN BuildHandles(sel.serverAddress, env, lib, hostErr)
             ELSE NoServerAddress(hostErr)

\* The libraries are reached only with a server address selected.
LibOutcomesFor(cluster, ip) ==
    LET sel == ChooseServerAddress(cluster, ip)
    IN  IF sel.err = NilErr /\ sel.serverAddress # "" THEN LibOutcomes ELSE {"ok"}

NewClusterClientSet ==
    /\ pc = "start"
    /\ \E lib \in LibOutcomesFor(c, hostIP) :
          LET r == NewClusterClientSetResult(c, hostIP, secretEnv, lib)
          IN  /\ pc' = r.pc
              /\ serverAddress' = r.serverAddress
              /\ kubeconfigErr' = r.kubeconfigErr
              /\ built' = r.built
              /\ client' = r.client
              /\ err' = r.err
    /\ op' = "NewClusterClientSet"
    /\ UNCHANGED <<c, hostIP, secretEnv, healthz, nodes, now, status, listing,
                   zones, region, zerr>>

----------------------------------------------------------------------------
(* GetClusterHealthStatus *)

\* Runes a /healthz body is made of: O o K k, the Kelvin sign U+212A, and x.
Runes == {79, 111, 75, 107, 8490, 120}

Bodies == SeqsUpTo(Runes, MaxBody)

Ok == <<111, 107>>      \* the string "ok"

Times == 0 .. MaxTime

Healthz == [err : BOOLEAN, body : Bodies]

\* unicode.SimpleFold: the next rune of r's case-folding orbit.
SimpleFold(r) ==
    CASE r = 79 -> 111
      [] r = 111 -> 79
      [] r = 75 -> 107
      [] r = 107 -> 8490
      [] r = 8490 -> 75
      [] r = 120 -> 88
      [] r = 88 -> 120
      [] OTHER -> r

\* SimpleFold applied to r, starting from the orbit's start sr, until it comes
\* back to sr or reaches tr.
RECURSIVE FoldUpTo(_, _, _)
FoldUpTo(r, sr, tr) == IF r # sr /\ r < tr THEN FoldUpTo(SimpleFold(r), sr, tr) ELSE r

\* One step of strings.EqualFold's loop: whether runes a and b fold together.
EqualFoldRune(a, b) ==
    LET sr == IF b < a THEN b ELSE a
        tr == IF b < a THEN a ELSE b
    IN  IF tr = sr THEN TRUE
        ELSE IF tr < 128
             THEN 65 <= sr /\ sr <= 90 /\ tr = sr + 97 - 65
             ELSE FoldUpTo(SimpleFold(sr), sr, tr) = tr

RECURSIVE EqualFoldFrom(_, _, _)
EqualFoldFrom(s, t, i) ==
    IF i > Len(s) \/ i > Len(t) THEN Len(s) = Len(t)
    ELSE IF EqualFoldRune(s[i], t[i]) THEN EqualFoldFrom(s, t, i + 1)
    ELSE FALSE

\* A case-sensitive comparison: string(body) == "ok".
EqualExactly(s, t) == s = t

EqualFold(s, t) == EqualFoldFrom(s, t, 1)

ClusterCondition(type, st, reason, message, currentTime) ==
    [Type |-> type, Status |-> st, Reason |-> reason, Message |-> message,
     LastProbeTime |-> currentTime, LastTransitionTime |-> currentTime]

newClusterReadyCondition(t) ==
    ClusterCondition("Ready", "True", "ClusterReady", "/healthz responded with ok", t)

newClusterNotReadyCondition(t) ==
    ClusterCondition("Ready", "False", "ClusterNotReady", "/healthz responded without ok", t)

newNodeOfflineCondition(t) ==
    ClusterCondition("Offline", "True", "ClusterNotReachable", "cluster is not reachable", t)

newNodeNotOfflineCondition(t) ==
    ClusterCondition("Offline", "False", "ClusterReachable", "cluster is reachable", t)

\* clusterStatus.Conditions for the answer (reqErr, body) to GET /healthz at time t.
HealthConditions(reqErr, body, t) ==
    IF reqErr THEN <<newNodeOfflineCondition(t)>>
    ELSE IF ~EqualFold(body, Ok)
         THEN <<newClusterNotReadyCondition(t), newNodeNotOfflineCondition(t)>>
         ELSE <<newClusterReadyCondition(t)>>

\* Called on the client NewClusterClientSet returned, when it is not nil and came
\* without an error. self.discoveryClient.Get() dereferences the handle.
GetClusterHealthStatus ==
    /\ pc = "returned"
    /\ client # NIL
    /\ err = NilErr
    /\ IF Deref(client).discoveryClient = "nil"
       THEN /\ pc' = "panic"
            /\ status' = status
       ELSE /\ pc' = "returned"
            /\ status' = HealthConditions(healthz.err, healthz.body, now)
    /\ op' = "GetClusterHealthStatus"
    /\ UNCHANGED <<c, hostIP, secretEnv, healthz, nodes, now, serverAddress,
                   kubeconfigErr, built, client, err, listing, zones, region, zerr>>

----------------------------------------------------------------------------
(* GetClusterZones, getZoneNames *)

LabelZoneFailureDomain == "failure-domain.beta.kubernetes.io/zone"
LabelZoneRegion == "failure-domain.beta.kubernetes.io/region"

\* Zone label values, in the order Go's sort.Strings puts them.
ZoneValues == <<"us-east-1a", "us-east-1b">>
RegionValues == {"us-east-1"}

ZoneLabels == {<<>>} \cup {<<v>> : v \in {ZoneValues[i] : i \in DOMAIN ZoneValues}}
RegionLabels == {<<>>} \cup {<<v>> : v \in RegionValues}

\* A node's label map, with the zone label z and the region label r when present.
Labels(z, r) ==
    [k \in (IF z = <<>> THEN {} ELSE {LabelZoneFailureDomain})
           \cup (IF r = <<>> THEN {} ELSE {LabelZoneRegion})
       |-> IF k = LabelZoneFailureDomain THEN z[1] ELSE r[1]]

LabelMaps == {Labels(z, r) : z \in ZoneLabels, r \in RegionLabels}

\* The node sets a cluster can have: node names are unique, here 1 .. k.
NodeSets ==
    UNION {{{[Name |-> n, Labels |-> f[n]] : n \in 1 .. k} : f \in [1 .. k -> LabelMaps]}
              : k \in 0 .. MaxNodes}

\* The orders in which a list call can return the nodes of S.
Listings(S) ==
    {l \in [1 .. Cardinality(S) -> S] : \A i, j \in DOMAIN l : l[i] = l[j] => i = j}

NoError == [msg |-> "nil", node |-> 0]

NilSlice == [isNil |-> TRUE, items |-> <<>>]
Slice(s) == [isNil |-> FALSE, items |-> s]

\* A missing zone label read as the empty zone name.
getZoneNameForNodeOrEmpty(node) ==
    [value |-> IF LabelZoneFailureDomain \in DOMAIN node.Labels
               THEN node.Labels[LabelZoneFailureDomain] ELSE "",
     err |-> NoError]

getZoneNameForNode(node) ==
    IF LabelZoneFailureDomain \in DOMAIN node.Labels
    THEN [value |-> node.Labels[LabelZoneFailureDomain], err |-> NoError]
    ELSE [value |-> "", err |-> [msg |-> "Zone name not found", node |-> node.Name]]

\* A missing region label read as the empty region name.
getRegionNameForNodeOrEmpty(node) ==
    [value |-> IF LabelZoneRegion \in DOMAIN node.Labels
               THEN node.Labels[LabelZoneRegion] ELSE "",
     err |-> NoError]

getRegionNameForNode(node) ==
    IF LabelZoneRegion \in DOMAIN node.Labels
    THEN [value |-> node.Labels[LabelZoneRegion], err |-> NoError]
    ELSE [value |-> "", err |-> [msg |-> "Region name not found", node |-> node.Name]]

\* sets.String: Insert, and List, which returns the members sorted.
\* The set replaced on every insert instead of extended.
InsertReplacing(zoneNames, zoneName) == {zoneName}

Insert(zoneNames, zoneName) == zoneNames \cup {zoneName}

StringLess(a, b) ==
    \E i, j \in DOMAIN ZoneValues : ZoneValues[i] = a /\ ZoneValues[j] = b /\ i < j

\* The members in descending order.
RECURSIVE ListDescending(_)
ListDescending(zoneNames) ==
    IF zoneNames = {} THEN <<>>
    ELSE LET greatest == CHOOSE x \in zoneNames : \A y \in zoneNames : ~StringLess(x, y)
         IN  <<greatest>> \o ListDescending(zoneNames \ {greatest})

RECURSIVE List(_)
List(zoneNames) ==
    IF zoneNames = {} THEN <<>>
    ELSE LET least == CHOOSE x \in zoneNames : \A y \in zoneNames : ~StringLess(y, x)
         IN  <<least>> \o List(zoneNames \ {least})

ZonesFailed(e) == [zones |-> NilSlice, region |-> "", err |-> e]

\* Whether the loop looks up the region of the node at index i (from 0).
InspectsRegion(i) == i = 0

\* The for loop over nodes.Items, from the item at index i (from 0) on.
RECURSIVE ZoneNamesFrom(_, _, _, _)
ZoneNamesFrom(items, i, zoneNames, reg) ==
    IF i >= Len(items) THEN [zones |-> Slice(List(zoneNames)), region |-> reg, err |-> NoError]
    ELSE LET node == items[i + 1]
             zoneName == getZoneNameForNode(node)
             regionName == getRegionNameForNode(node)
         IN  IF zoneName.err # NoError THEN ZonesFailed(zoneName.err)
             ELSE IF InspectsRegion(i)
                  THEN IF regionName.err # NoError THEN ZonesFailed(regionName.err)
                       ELSE ZoneNamesFrom(items, i + 1, Insert(zoneNames, zoneName.value),
                                          regionName.value)
                  ELSE ZoneNamesFrom(items, i + 1, Insert(zoneNames, zoneName.value), reg)

\* getZoneNames once the list call answered: listOK says whether it succeeded.
getZoneNames(listOK, items) ==
    IF ~listOK THEN ZonesFailed([msg |-> "Failed to list nodes", node |-> 0])
    ELSE ZoneNamesFrom(items, 0, {}, "")

\* Called like GetClusterHealthStatus. client.Core().Nodes() dereferences the handle.
GetClusterZones ==
    /\ pc = "returned"
    /\ client # NIL
    /\ err = NilErr
    /\ IF Deref(client).kubeClient = "nil"
       THEN /\ pc' = "panic"
            /\ UNCHANGED <<listing, zones, region, zerr>>
       ELSE \E listOK \in BOOLEAN :
            \E items \in IF listOK THEN Listings(nodes) ELSE {<<>>} :
               LET r == getZoneNames(listOK, items)
               IN  /\ pc' = "returned"
                   /\ listing' = [ok |-> listOK, items |-> items]
                   /\ zones' = r.zones
                   /\ region' = r.region
                   /\ zerr' = r.err
    /\ op' = "GetClusterZones"
    /\ UNCHANGED <<c, hostIP, secretEnv, healthz, nodes, now, serverAddress,
                   kubeconfigErr, built, client, err, status>>

----------------------------------------------------------------------------
(* Specifications *)

\* One pair whose CIDR contains every address.
CatchAllCluster ==
    <<[ClientCIDR |-> [ip |-> 0, bits |-> 0], ServerAddress |-> "https://a"]>>

HealthyCluster == [err |-> FALSE, body |-> Ok]

\* Nothing called yet.
InitProgram ==
    /\ pc = "start"
    /\ op = "none"
    /\ serverAddress = ""
    /\ kubeconfigErr = "notcalled"
    /\ built = {}
    /\ client = NIL
    /\ err = NilErr
    /\ status = <<>>
    /\ listing = [ok |-> FALSE, items |-> <<>>]
    /\ zones = NilSlice
    /\ region = ""
    /\ zerr = NoError

\* Every secret environment and host IP, with short cluster specs, against a healthy
\* empty member cluster.
Init ==
    /\ c \in SeqsUpTo(ServerAddressByClientCIDR, MaxCredPairs)
    /\ hostIP \in HostIPs
    /\ secretEnv \in SecretEnvs
    /\ healthz = HealthyCluster
    /\ nodes = {}
    /\ now = 0
    /\ InitProgram

\* Every cluster spec and host IP, where the secret is in place.
InitEndpoints ==
    /\ c \in ClusterSpecs
    /\ hostIP \in HostIPs
    /\ secretEnv = GoodSecretEnv
    /\ healthz = HealthyCluster
    /\ nodes = {}
    /\ now = 0
    /\ InitProgram

\* Every /healthz answer at every time.
InitProbe ==
    /\ c \in {<<>>, CatchAllCluster}
    /\ hostIP = 0
    /\ secretEnv = GoodSecretEnv
    /\ healthz \in Healthz
    /\ nodes = {}
    /\ now \in Times
    /\ InitProgram

\* Every node set.
InitTopology ==
    /\ c \in {<<>>, CatchAllCluster}
    /\ hostIP = 0
    /\ secretEnv = GoodSecretEnv
    /\ healthz = HealthyCluster
    /\ nodes \in NodeSets
    /\ now = 0
    /\ InitProgram

Next ==
    \/ NewClusterClientSet
    \/ GetClusterHealthStatus
    \/ GetClusterZones

\* Client construction alone.
NextEndpoints == NewClusterClientSet

\* Client construction followed by topology discovery alone.
NextTopology ==
    \/ NewClusterClientSet
    \/ GetClusterZones

Spec == Init /\ [][Next]_vars
SpecEndpoints == InitEndpoints /\ [][NextEndpoints]_vars
SpecProbe == InitProbe /\ [][Next]_vars
SpecTopology == InitTopology /\ [][NextTopology]_vars

----------------------------------------------------------------------------
(* Endpoint selection and client construction *)

\* Whether pair's ClientCIDR is well formed and its network contains ip.
Matches(ip, pair) ==
    /\ pair.ClientCIDR.bits <= IPBits
    /\ ip \div (2 ^ (IPBits - pair.ClientCIDR.bits))
         = pair.ClientCIDR.ip \div (2 ^ (IPBits - pair.ClientCIDR.bits))

WellFormedCIDRs(cluster) == \A i \in DOMAIN cluster : cluster[i].ClientCIDR.bits <= IPBits

MatchingPairs(cluster, ip) == {i \in DOMAIN cluster : Matches(ip, cluster[i])}

FirstMatch(cluster, ip) ==
    CHOOSE i \in MatchingPairs(cluster, ip) : \A j \in MatchingPairs(cluster, ip) : i <= j

\* The host IP was resolved, every CIDR parses, and no CIDR contains the host IP.
NoMatchingCIDR == hostIP # NoHostIP /\ WellFormedCIDRs(c) /\ MatchingPairs(c, hostIP) = {}

ResolverFails == KubeconfigGetterForCluster(secretEnv) # NilErr

\* C1: with the host IP resolved and every CIDR well formed, the server address
\* NewClusterClientSet selects is the address of the first pair in list order whose
\* CIDR contains the host IP, and the empty "no endpoint" address when no pair's
\* CIDR contains it.
FirstMatchingPairSelected ==
    (pc # "start" /\ hostIP # NoHostIP /\ WellFormedCIDRs(c)) =>
        serverAddress = IF MatchingPairs(c, hostIP) = {} THEN ""
                        ELSE c[FirstMatch(c, hostIP)].ServerAddress

\* Two overlapping CIDRs with different addresses both contain the host IP, and the
\* earlier one's address was selected.
OverlapFirstWinsReached ==
    /\ pc = "returned"
    /\ hostIP # NoHostIP
    /\ WellFormedCIDRs(c)
    /\ \E i, j \in MatchingPairs(c, hostIP) :
          /\ i < j
          /\ i = FirstMatch(c, hostIP)
          /\ c[i].ServerAddress # ""
          /\ c[j].ServerAddress # ""
          /\ c[i].ServerAddress # c[j].ServerAddress
          /\ serverAddress = c[i].ServerAddress

MalformedCIDRs(cluster) == {i \in DOMAIN cluster : cluster[i].ClientCIDR.bits > IPBits}

\* NewClusterClientSet returned net.ParseCIDR's error and no client.
ParseErrorReturned ==
    pc = "returned" /\ client = NIL /\ err = "invalid CIDR address" /\ built = {}

\* C11 as stated: with the host IP resolved, a pair list holding a malformed CIDR at
\* any position makes NewClusterClientSet return a parse error and no client, whether
\* or not another pair's CIDR contains the host IP.
MalformedCIDRFailsFast ==
    (pc # "start" /\ hostIP # NoHostIP /\ MalformedCIDRs(c) # {}) => ParseErrorReturned

\* C11 amended: the same for a pair list holding a malformed CIDR that no pair whose
\* CIDR contains the host IP precedes, whether or not a later pair's CIDR contains it.
MalformedCIDRBeforeMatchFailsFast ==
    (pc # "start" /\ hostIP # NoHostIP
       /\ \E i \in MalformedCIDRs(c) : \A j \in MatchingPairs(c, hostIP) : i < j) =>
        ParseErrorReturned

\* A malformed CIDR came first, a pair whose CIDR contains the host IP after it, and
\* the parse error was returned.
MalformedBeforeMatchReached ==
    /\ op = "NewClusterClientSet"
    /\ hostIP # NoHostIP
    /\ Len(c) = 2
    /\ MalformedCIDRs(c) = {1}
    /\ MatchingPairs(c, hostIP) = {2}
    /\ c[2].ServerAddress # ""
    /\ ParseErrorReturned

\* C3: when no pair's CIDR contains the host IP, NewClusterClientSet returns a nil
\* client and no error.
NoMatchReturnsNilClient ==
    (op = "NewClusterClientSet" /\ pc = "returned" /\ NoMatchingCIDR) =>
        (client = NIL /\ err = NilErr)

\* C4 as stated: with a CIDR containing the host IP and a failing kubeconfig getter,
\* NewClusterClientSet returns a nil client and a non-nil error and constructs no handle.
FailingResolverReturnsError ==
    (op = "NewClusterClientSet" /\ hostIP # NoHostIP /\ MatchingPairs(c, hostIP) # {}
       /\ ResolverFails) =>
        (pc = "returned" /\ client = NIL /\ err # NilErr /\ built = {})

\* C4 amended: the same when the first pair whose CIDR contains the host IP has a
\* non-empty server address; and the no-matching-CIDR outcome carries no error, so the
\* two outcomes differ in the error.
FailingResolverReturnsErrorForNonEmptyAddress ==
    /\ (op = "NewClusterClientSet" /\ hostIP # NoHostIP /\ MatchingPairs(c, hostIP) # {}
          /\ c[FirstMatch(c, hostIP)].ServerAddress # "" /\ ResolverFails) =>
           (pc = "returned" /\ client = NIL /\ err # NilErr /\ built = {})
    /\ (op = "NewClusterClientSet" /\ NoMatchingCIDR) => (pc = "returned" /\ err = NilErr)

\* The getter was invoked for a matching pair, failed, and its error came back.
FailingResolverReached ==
    /\ op = "NewClusterClientSet"
    /\ pc = "returned"
    /\ hostIP # NoHostIP
    /\ MatchingPairs(c, hostIP) # {}
    /\ c[FirstMatch(c, hostIP)].ServerAddress # ""
    /\ ResolverFails
    /\ kubeconfigErr = KubeconfigGetterForCluster(secretEnv)
    /\ client = NIL
    /\ err = kubeconfigErr

\* C5: a non-nil client returned with a nil error has both handles non-nil.
ReturnedClientHasBothHandles ==
    (pc # "start" /\ client # NIL /\ err = NilErr) =>
        (Deref(client).discoveryClient # "nil" /\ Deref(client).kubeClient # "nil")

\* C6: GetClusterHealthStatus, called on a non-nil client that came without an
\* error, returns a status and does not panic.
HealthProbeNeverFails ==
    op = "GetClusterHealthStatus" => (pc = "returned" /\ status # <<>>)

----------------------------------------------------------------------------
(* Health probe *)

\* The (type, status) pairs of a condition sequence.
ConditionKinds(conditions) ==
    [i \in DOMAIN conditions |-> <<conditions[i].Type, conditions[i].Status>>]

\* body is "ok" up to case: o or O, then k, K or the Kelvin sign.
CaseInsensitiveOk(body) ==
    Len(body) = 2 /\ body[1] \in {111, 79} /\ body[2] \in {107, 75, 8490}

\* C2: the conditions GetClusterHealthStatus returns are, whatever the time and the
\* client, [Offline=true] on a request error, [Ready=true] on a body equal to "ok" up
\* to case, and [Ready=false, Offline=false] on any other body.
HealthStatusIsOneOfThree ==
    (op = "GetClusterHealthStatus" /\ pc = "returned") =>
        ConditionKinds(status) =
            IF healthz.err THEN <<(<<"Offline", "True">>)>>
            ELSE IF CaseInsensitiveOk(healthz.body) THEN <<(<<"Ready", "True">>)>>
            ELSE <<(<<"Ready", "False">>), (<<"Offline", "False">>)>>

\* The body "OK" was answered and the status is [Ready=true].
UpperCaseOkReadyReached ==
    /\ op = "GetClusterHealthStatus"
    /\ pc = "returned"
    /\ ~healthz.err
    /\ healthz.body = <<79, 75>>
    /\ ConditionKinds(status) = <<(<<"Ready", "True">>)>>

----------------------------------------------------------------------------
(* Topology discovery *)

HasZone(node) == LabelZoneFailureDomain \in DOMAIN node.Labels
HasRegion(node) == LabelZoneRegion \in DOMAIN node.Labels

\* getZoneNames just returned, and its list call had succeeded.
Discovered == op = "GetClusterZones" /\ pc = "returned" /\ listing.ok

MissingZone(items) == {i \in DOMAIN items : ~HasZone(items[i])}

FirstMissingZone(items) == CHOOSE i \in MissingZone(items) : \A j \in MissingZone(items) : i <= j

NoPartialResult == zones = NilSlice /\ region = ""

\* C7 as stated: when some listed node lacks the zone label, discovery returns the
\* zone error naming a node that lacks it, and no partial result.
MissingZoneLabelNamesSuchNode ==
    (Discovered /\ MissingZone(listing.items) # {}) =>
        /\ zerr.msg = "Zone name not found"
        /\ \E i \in MissingZone(listing.items) : listing.items[i].Name = zerr.node
        /\ NoPartialResult

\* C7 amended: when some listed node lacks the zone label, discovery returns no
\* partial result and an error: the zone error naming the first node in listing order
\* that lacks the zone label, except that when the first listed node carries the zone
\* label and lacks the region label it is the region error naming that first node.
MissingZoneLabelFails ==
    (Discovered /\ MissingZone(listing.items) # {}) =>
        /\ NoPartialResult
        /\ zerr = IF HasZone(listing.items[1]) /\ ~HasRegion(listing.items[1])
                  THEN [msg |-> "Region name not found", node |-> listing.items[1].Name]
                  ELSE [msg |-> "Zone name not found",
                        node |-> listing.items[FirstMissingZone(listing.items)].Name]

\* Two labelled nodes came before the first node lacking the zone label, which the
\* error names.
LaterNodeMissingZoneReached ==
    /\ Discovered
    /\ Len(listing.items) = 3
    /\ MissingZone(listing.items) = {3}
    /\ HasRegion(listing.items[1])
    /\ zerr = [msg |-> "Zone name not found", node |-> listing.items[3].Name]
    /\ NoPartialResult

\* C8 as stated: when some listed node lacks the region label, discovery fails as a
\* whole and returns no partial result.
AnyMissingRegionLabelFails ==
    (Discovered /\ \E i \in DOMAIN listing.items : ~HasRegion(listing.items[i])) =>
        (zerr # NoError /\ NoPartialResult)

\* C8 amended: when the first node in listing order lacks the region label, discovery
\* fails as a whole and returns no partial result.
FirstMissingRegionLabelFails ==
    (Discovered /\ listing.items # <<>> /\ ~HasRegion(listing.items[1])) =>
        (zerr # NoError /\ NoPartialResult)

\* Every node has the zone label, the first lacks the region label, and the region
\* error names it.
FirstNodeMissingRegionReached ==
    /\ Discovered
    /\ Len(listing.items) >= 2
    /\ MissingZone(listing.items) = {}
    /\ ~HasRegion(listing.items[1])
    /\ zerr = [msg |-> "Region name not found", node |-> listing.items[1].Name]
    /\ NoPartialResult

\* A second discovery call follows a first one, both list calls having succeeded;
\* the node set is the same, the listing order any.
Rediscovered == Discovered /\ Discovered'

SameZoneResult == zones' = zones /\ ((zerr' = NoError) <=> (zerr = NoError))

\* C9 as stated: two discovery calls against the same node set, in any two listing
\* orders, return the same zone sequence and both succeed or both fail.
SameNodesSameZones == [][Rediscovered => SameZoneResult]_vars

\* Whether the two listings' first nodes agree on carrying the region label.
FirstNodesAgreeOnRegion ==
    listing.items # <<>> => (HasRegion(listing.items[1]) <=> HasRegion(listing'.items[1]))

\* C9 amended: the same, for the listing orders whose first nodes agree on carrying
\* the region label (all of them when every node carries it).
SameNodesSameZonesWhenFirstNodesAgree ==
    [][(Rediscovered /\ FirstNodesAgreeOnRegion) => SameZoneResult]_vars

\* Discovery succeeded on nodes listed out of name order, with two distinct zones.
ReorderedListingReached ==
    /\ Discovered
    /\ Len(listing.items) >= 2
    /\ listing.items[1].Name > listing.items[2].Name
    /\ zerr = NoError
    /\ Len(zones.items) = 2

ZoneLabelsOf(items) == {items[i].Labels[LabelZoneFailureDomain] : i \in DOMAIN items}

\* Whether zone name a sorts strictly before zone name b.
SortsBefore(a, b) ==
    \E i \in DOMAIN ZoneValues : a = ZoneValues[i] /\ \E j \in (i + 1) .. Len(ZoneValues) : b = ZoneValues[j]

\* C10: when every listed node carries the zone label and the first carries the
\* region label, getZoneNames returns no error, the distinct zone label values each
\* once in ascending order, and the first node's region label; for an empty list it
\* returns an empty, non-nil zone sequence, the region "" and no error.
ZonesAreSortedDistinctLabels ==
    (Discovered /\ MissingZone(listing.items) = {}
       /\ (listing.items # <<>> => HasRegion(listing.items[1]))) =>
        /\ zerr = NoError
        /\ ~zones.isNil
        /\ {zones.items[i] : i \in DOMAIN zones.items} = ZoneLabelsOf(listing.items)
        /\ \A i, j \in DOMAIN zones.items : i < j => SortsBefore(zones.items[i], zones.items[j])
        /\ region = IF listing.items = <<>> THEN ""
                    ELSE listing.items[1].Labels[LabelZoneRegion]

\* Three nodes in zones b, a, b, the first with a region label: zones a, b returned.
DuplicateZonesReached ==
    /\ Discovered
    /\ Len(listing.items) = 3
    /\ MissingZone(listing.items) = {}
    /\ [i \in 1 .. 3 |-> listing.items[i].Labels[LabelZoneFailureDomain]]
         = <<ZoneValues[2], ZoneValues[1], ZoneValues[2]>>
    /\ HasRegion(listing.items[1])
    /\ zones = Slice(<<ZoneValues[1], ZoneValues[2]>>)
    /\ region = "us-east-1"
    /\ zerr = NoError

====
